---- MODULE Spec2Model ----
(***************************************************************************)
(* service-metrics: a long-running agent that periodically runs an         *)
(* external metrics command, decodes its combined output as a JSON array   *)
(* of {key, value, unit} records and forwards each record to the dropsonde *)
(* sink (src/service-metrics.go).                                          *)
(*                                                                         *)
(* The command's output is modelled as a sequence of JSON tokens; an       *)
(* object is one token.  Time is counted in abstract ticks.                *)
(***************************************************************************)
EXTENDS Integers, Sequences, FiniteSets, TLC

(*************************** bounds of the model ***************************)
\* Longest payload (number of array elements) the metrics command emits.
MaxMetrics == 2
\* Longest time, in ticks, the metrics command runs before it exits.
MaxDur == 3
\* Longest time, in ticks, by which time.After fires late.
MaxLate == 1

(******************************* JSON tokens *******************************)
Tok(kind, key, value, unit) ==
    [kind |-> kind, Key |-> key, Value |-> value, Unit |-> unit]

LBracket == Tok("[", "", 0, "")
RBracket == Tok("]", "", 0, "")
Comma    == Tok(",", "", 0, "")
\* a byte sequence that is no JSON at all, such as the word "invalid"
Junk     == Tok("junk", "", 0, "")
\* a JSON object whose "value" field holds a string: right syntax, wrong type
BadObj   == Tok("badobj", "loadMetric", 0, "Load")
Obj(m)   == Tok("obj", m.Key, m.Value, m.Unit)

Metric(key, value, unit) == [Key |-> key, Value |-> value, Unit |-> unit]

\* the records of the integration test's metricsJson
Metrics ==
    { Metric("loadMetric", 4, "Load"),
      Metric("temperatureMetric", 99, "Temperature") }

ZeroMetric == Metric("", 0, "")

Tokens == {LBracket, RBracket, Comma, Junk, BadObj} \cup {Obj(m) : m \in Metrics}

(********************** what the metrics command emits *********************)
SeqsUpTo(S, n) == UNION { [1..k -> S] : k \in 0..n }

Elems == {BadObj} \cup {Obj(m) : m \in Metrics}

RECURSIVE Encode(_)
\* the JSON array text of a payload: [ e1 , e2 , ... ]
Encode(p) ==
    IF p = <<>> THEN <<LBracket, RBracket>>
    ELSE IF Len(p) = 1 THEN <<LBracket, p[1], RBracket>>
    ELSE <<LBracket, p[1], Comma>> \o Tail(Encode(Tail(p)))

Encodings == { Encode(p) : p \in SeqsUpTo(Elems, MaxMetrics) }

\* Every array text, every truncation of one, every array text followed by
\* one more token, and every array text with one token replaced.
Outputs ==
    Encodings
    \cup UNION { { SubSeq(e, 1, k) : k \in 0..Len(e) } : e \in Encodings }
    \cup { Append(e, t) : e \in Encodings, t \in Tokens }
    \cup UNION { { [e EXCEPT ![i] = t] : i \in 1..Len(e), t \in Tokens }
                 : e \in Encodings }
    \cup { <<e>> : e \in Elems }

(********************* json.NewDecoder(...).Decode(&m) *********************)
NoErr         == ""
ErrEOF        == "EOF"
ErrUnexpected == "unexpected EOF"
ErrSyntax     == "invalid character"
ErrType       == "json: cannot unmarshal into Go value"

RECURSIVE scan(_, _, _, _)
\* The decoder's scanner: reads ONE JSON value from position i on and gives
\* the position of its last token, or the syntax error.  What follows the
\* value in the output is never looked at.
scan(out, i, depth, step) ==
    IF i > Len(out)
    THEN [err |-> IF i = 1 THEN ErrEOF ELSE ErrUnexpected, end |-> 0]
    ELSE LET c == out[i].kind IN
         IF step = "stateEndValue"
         THEN CASE c = "," -> scan(out, i + 1, depth, "stateBeginValue")
                [] c = "]" -> IF depth = 1
                              THEN [err |-> NoErr, end |-> i]
                              ELSE scan(out, i + 1, depth - 1, "stateEndValue")
                [] OTHER   -> [err |-> ErrSyntax, end |-> 0]
         ELSE CASE c = "]" /\ step = "stateBeginValueOrEmpty" ->
                       IF depth = 1
                       THEN [err |-> NoErr, end |-> i]
                       ELSE scan(out, i + 1, depth - 1, "stateEndValue")
                [] c = "[" -> scan(out, i + 1, depth + 1, "stateBeginValueOrEmpty")
                [] c \in {"obj", "badobj"} ->
                       IF depth = 0
                       THEN [err |-> NoErr, end |-> i]
                       ELSE scan(out, i + 1, depth, "stateEndValue")
                [] OTHER   -> [err |-> ErrSyntax, end |-> 0]

readValue(out) == scan(out, 1, 0, "stateBeginValue")

RECURSIVE skip(_, _, _)
\* the position after the value that starts at i (i is an opening bracket
\* when depth = 0), in text the scanner has accepted
skip(out, i, depth) ==
    LET c == out[i].kind IN
    CASE c = "[" -> skip(out, i + 1, depth + 1)
      [] c = "]" -> IF depth = 1 THEN i + 1 ELSE skip(out, i + 1, depth - 1)
      [] OTHER   -> IF depth = 0 THEN i + 1 ELSE skip(out, i + 1, depth)

FirstErr(err, new) == IF err = NoErr THEN new ELSE err

RECURSIVE array(_, _, _, _)
\* decodeState.array into a []Metric: every element gets a slot; an element
\* of the wrong type saves the first error and decoding goes on.
array(out, i, acc, err) ==
    LET c == out[i].kind IN
    CASE c = "]"      -> [err |-> err, metrics |-> acc]
      [] c = ","      -> array(out, i + 1, acc, err)
      [] c = "obj"    -> array(out, i + 1,
                               Append(acc, Metric(out[i].Key, out[i].Value, out[i].Unit)),
                               err)
      [] c = "badobj" -> array(out, i + 1,
                               Append(acc, Metric(out[i].Key, 0, out[i].Unit)),
                               FirstErr(err, ErrType))
      [] OTHER        -> array(out, skip(out, i, 0),
                               Append(acc, ZeroMetric),
                               FirstErr(err, ErrType))

unmarshal(out) ==
    IF out[1].kind = "["
    THEN array(out, 2, <<>>, NoErr)
    ELSE [err |-> ErrType, metrics |-> <<>>]

\* decoder.Decode(&parsedMetrics): the error and what parsedMetrics holds
Decode(out) ==
    LET v == readValue(out) IN
    IF v.err # NoErr
    THEN [err |-> v.err, metrics |-> <<>>]
    ELSE unmarshal(SubSeq(out, 1, v.end))

(************************* command line and globals ************************)
Origins     == {"", "p-service-origin"}
MetronAddrs == {"", "localhost:3777"}
\* no --metrics-cmd, a command that exists, a path that does not
NoSuchCmd   == "/your/system/wont/have/this/yet"
MetricsCmds == {"", "/bin/bash", NoSuchCmd}
\* the values of the repeated --metrics-cmd-arg flag, as given
ArgLists    == { <<>>, <<"-c", "exit 10">>, <<"-n", "-n">> }
\* --metrics-interval, in ticks
Intervals   == {1, 2}

CmdLines ==
    [ origin : Origins, metronAddr : MetronAddrs, metricsCmd : MetricsCmds,
      metricsCmdArg : ArgLists, metricsInterval : Intervals ]

\* the nil multiFlag
Nil == <<>>

\* faulty variant: each --metrics-cmd-arg replaces the ones before it
Set_Replace(args, value) == <<value>>

\* multiFlag.Set on the global metricsCmdArgs
Set(args, value) == Append(IF args = Nil THEN <<>> ELSE args, value)

RECURSIVE SetAll(_, _)
\* flag.Parse calls Set once per --metrics-cmd-arg, in command-line order
SetAll(args, values) ==
    IF values = <<>> THEN args
    ELSE SetAll(Set(args, Head(values)), Tail(values))

(****************************** wait statuses ******************************)
ExitCodes == {0, 1, 10, 11}
SIGKILL   == "SIGKILL"

\* how a started command ended: a normal exit with a status, or a signal
WaitStatuses ==
    { [exited |-> TRUE, code |-> c, signal |-> ""] : c \in ExitCodes }
    \cup { [exited |-> FALSE, code |-> 0, signal |-> SIGKILL] }

NoWaitStatus == [exited |-> FALSE, code |-> 0, signal |-> ""]

\* syscall.WaitStatus.ExitStatus: -1 unless the process exited
ExitStatus(ws) == IF ws.exited THEN ws.code ELSE -1

\* faulty variant: any normal exit counts as success, whatever its status
Success_AnyExit(ws) == ws.exited

\* faulty variant: success is a status code of 0, exited or not
Success_ZeroCode(ws) == ws.code = 0

\* CombinedOutput's error is nil only for a process that exited with 0
Success(ws) == ws.exited /\ ws.code = 0

\* the exit status the metrics command uses to say "not ready yet"
NotReadyStatus == 10

\* faulty variant: every status from 10 up counts as "not ready"
IsNotReady_Above(ws) == ExitStatus(ws) >= NotReadyStatus

\* faulty variant: the check for status 10 is missing
IsNotReady_Never(ws) == FALSE

\* exitStatus == 10, asked of the wait status of a command that failed
IsNotReady(ws) == ExitStatus(ws) = NotReadyStatus

(********************************* logging *********************************)
Event(level, action, event, output, err, data) ==
    [ level |-> level, action |-> action, event |-> event,
      output |-> output, err |-> err, data |-> data ]

Info(action, event, output) == Event("info", action, event, output, NoErr, <<>>)
Error(action, err, event, output, data) ==
    Event("error", action, event, output, err, data)

NoCmdConfigured ==
    << Tok("text", "no metrics command has been configured, cannot collect metrics", 0, "") >>

ErrExit   == "exit status / signal"
ErrLaunch == "fork/exec: no such file or directory"
ErrSend   == "sending metric value failed"
ErrInit   == "Dropsonde failed to initialize"

VARIABLES
    cmdline,          \* the flags the process was started with
    origin, metronAddr, metricsCmd, metricsCmdArgs, metricsInterval,
    pc,               \* where main is: main, process, running, select, exited
    exitCode,         \* the status of os.Exit; -1 while the process runs
    stderr,           \* what was printed straight to standard error
    dropsonde,        \* the sink: uninitialized, initialized, failed
    cycleNo,          \* none, first, later
    inFlight,         \* metrics commands started and not yet waited for
    cmd,              \* the exec.Command of this cycle: path and args
    state,            \* launch and wait status of this cycle's command
    out,              \* this cycle's captured output
    decoded,          \* the results of this cycle's Decode calls
    sent,             \* this cycle's SendValue calls, in call order
    failed,           \* the positions in sent of the calls the sink failed
    log,              \* this cycle's log events, in order
    dur,              \* ticks this cycle took, once it returned
    waited            \* ticks time.After took, once it fired

globals == <<origin, metronAddr, metricsCmd, metricsCmdArgs, metricsInterval>>
cycle   == <<cmd, state, out, decoded, sent, failed, log, dur>>
vars    == <<cmdline, globals, pc, exitCode, stderr, dropsonde, cycleNo, inFlight,
             cycle, waited>>

NoCmd == [path |-> "", args |-> <<>>]
NotStarted == [launched |-> FALSE, done |-> FALSE, ws |-> NoWaitStatus]

Init ==
    /\ cmdline \in CmdLines
    /\ origin = "" /\ metronAddr = "" /\ metricsCmd = ""
    /\ metricsCmdArgs = Nil
    /\ metricsInterval = 0
    /\ pc = "main"
    /\ exitCode = -1
    /\ stderr = <<>>
    /\ cycleNo = "none"
    /\ inFlight = 0
    /\ cmd = NoCmd
    /\ state = NotStarted
    /\ dropsonde = "uninitialized"
    /\ out = <<>> /\ decoded = <<>> /\ sent = <<>> /\ failed = {} /\ log = <<>>
    /\ dur = 0 /\ waited = 0

\* os.Exit(code)
Exit(code) == pc' = "exited" /\ exitCode' = code

\* faulty variant: --metrics-cmd is not required
assertFlag_SkipCmd(name, value) == value = "" /\ name # "metrics-cmd"

\* assertFlag(name, value): whether it prints the usage and exits
assertFlag(name, value) == value = ""

MustProvide(name) == "Must provide --" \o name

\* main up to its first call of process: flag.Parse, the three assertFlag
\* calls, the logger, dropsonde.Initialize
Main ==
    /\ pc = "main"
    /\ origin' = cmdline.origin
    /\ metronAddr' = cmdline.metronAddr
    /\ metricsCmd' = cmdline.metricsCmd
    /\ metricsCmdArgs' = SetAll(metricsCmdArgs, cmdline.metricsCmdArg)
    /\ metricsInterval' = cmdline.metricsInterval
    /\ IF assertFlag("origin", cmdline.origin)
       THEN stderr' = <<MustProvide("origin")>> /\ Exit(1)
            /\ UNCHANGED <<log, dropsonde>>
       ELSE IF assertFlag("metron-addr", cmdline.metronAddr)
       THEN stderr' = <<MustProvide("metron-addr")>> /\ Exit(1)
            /\ UNCHANGED <<log, dropsonde>>
       ELSE IF assertFlag("metrics-cmd", cmdline.metricsCmd)
       THEN stderr' = <<MustProvide("metrics-cmd")>> /\ Exit(1)
            /\ UNCHANGED <<log, dropsonde>>
       ELSE /\ stderr' = stderr
            /\ \E initialized \in BOOLEAN :
                 IF ~initialized
                 THEN /\ dropsonde' = "failed"
                      /\ log' = <<Error(ErrInit, ErrInit, "", <<>>, <<>>)>>
                      /\ Exit(1)
                 ELSE /\ dropsonde' = "initialized"
                      /\ log' = log
                      /\ pc' = "process"
                      /\ exitCode' = exitCode
    /\ UNCHANGED <<cmdline, cycleNo, inFlight, cmd, state, out, decoded, sent, failed,
                   dur, waited>>

\* whether cmd.Start can start the command at this path
CanStart(path) == IF path \in {"", NoSuchCmd} THEN {FALSE} ELSE {TRUE, FALSE}

NextCycleNo(n) == IF n = "none" THEN "first" ELSE "later"

\* faulty variant: a launch failure exits with status 0
LaunchFailed_ExitZero ==
    /\ state' = [launched |-> FALSE, done |-> TRUE, ws |-> NoWaitStatus]
    /\ log' = << Info("executing-metrics-cmd", "starting", <<>>),
                 Error("executing-metrics-cmd", ErrLaunch, "failed",
                       NoCmdConfigured, <<>>) >>
    /\ inFlight' = inFlight
    /\ Exit(0)

\* err is no *exec.ExitError: the command was never started
LaunchFailed ==
    /\ state' = [launched |-> FALSE, done |-> TRUE, ws |-> NoWaitStatus]
    /\ log' = << Info("executing-metrics-cmd", "starting", <<>>),
                 Error("executing-metrics-cmd", ErrLaunch, "failed",
                       NoCmdConfigured, <<>>) >>
    /\ inFlight' = inFlight
    /\ Exit(1)

\* process, from its first line to the command being started: the "starting"
\* event, exec.Command, and CombinedOutput's cmd.Start.  A command that
\* cannot be started is logged and ends the process with status 1.
Process ==
    /\ pc = "process"
    /\ cycleNo' = NextCycleNo(cycleNo)
    /\ cmd' = [path |-> metricsCmd, args |-> metricsCmdArgs]
    /\ dur' = 0 /\ waited' = 0
    /\ \E started \in CanStart(metricsCmd) :
         IF ~started
         THEN LaunchFailed
         ELSE /\ state' = [launched |-> TRUE, done |-> FALSE, ws |-> NoWaitStatus]
              /\ log' = << Info("executing-metrics-cmd", "starting", <<>>) >>
              /\ inFlight' = inFlight + 1
              /\ pc' = "running"
              /\ exitCode' = exitCode
    \* out, parsedMetrics and the loop are new with every call: what an
    \* earlier call held went when that call returned
    /\ UNCHANGED <<cmdline, globals, stderr, dropsonde, out, decoded, sent, failed>>

RECURSIVE SendValues_Dedup(_, _, _)
\* faulty variant: a metric equal to an earlier one of the payload is skipped
SendValues_Dedup(ms, failing, i) ==
    IF i > Len(ms) THEN [sent |-> <<>>, log |-> <<>>]
    ELSE LET rest == SendValues_Dedup(ms, failing, i + 1) IN
         IF \E j \in 1..(i - 1) : ms[j] = ms[i]
         THEN rest
         ELSE [ sent |-> <<ms[i]>> \o rest.sent,
                log  |-> (IF i \in failing
                          THEN << Error(ErrSend, ErrSend, "failed", <<>>, <<ms[i]>>) >>
                          ELSE <<>>) \o rest.log ]

RECURSIVE SendValues_Abort(_, _, _)
\* faulty variant: the loop ends at the first call the sink fails
SendValues_Abort(ms, failing, i) ==
    IF i > Len(ms) THEN [sent |-> <<>>, log |-> <<>>]
    ELSE IF i \in failing
         THEN [ sent |-> <<ms[i]>>,
                log  |-> << Error(ErrSend, ErrSend, "failed", <<>>, <<ms[i]>>) >> ]
         ELSE LET rest == SendValues_Abort(ms, failing, i + 1) IN
              [ sent |-> <<ms[i]>> \o rest.sent, log |-> rest.log ]

RECURSIVE SendValues(_, _, _)
\* The range loop over parsedMetrics from index i on: one SendValue call per
\* metric, in order; a call the sink fails is logged and the loop goes on.
\* Gives the calls made and the events logged.
SendValues(ms, failing, i) ==
    IF i > Len(ms) THEN [sent |-> <<>>, log |-> <<>>]
    ELSE LET rest == SendValues(ms, failing, i + 1) IN
         [ sent |-> <<ms[i]>> \o rest.sent,
           log  |-> (IF i \in failing
                     THEN << Error(ErrSend, ErrSend, "failed", <<>>, <<ms[i]>>) >>
                     ELSE <<>>) \o rest.log ]

\* faulty variant: only a syntax error counts as a failed parse
ParseFailed_SyntaxOnly(dec) == dec.err \notin {NoErr, ErrType}

\* err != nil after decoder.Decode
ParseFailed(dec) == dec.err # NoErr

\* process, from the command's end to its return or os.Exit: classify the
\* wait status, decode the output, forward every metric.
Collect ==
    /\ pc = "running"
    \* what the command did: how it ended, what it printed, how long it ran
    /\ state' \in { [launched |-> TRUE, done |-> TRUE, ws |-> ws] : ws \in WaitStatuses }
    /\ out' \in Outputs
    /\ dur' \in 0..MaxDur
    /\ inFlight' = inFlight - 1
    /\ IF ~Success(state'.ws)
       THEN /\ decoded' = decoded /\ sent' = sent /\ failed' = failed
            /\ IF IsNotReady(state'.ws)
               THEN /\ log' = Append(log, Info("executing-metrics-cmd",
                                                "not yet ready to emit metrics", out'))
                    /\ pc' = "select"
                    /\ exitCode' = exitCode
               ELSE /\ log' = Append(log, Error("executing-metrics-cmd", ErrExit,
                                                 "failed", out', <<>>))
                    /\ Exit(0)
       ELSE LET dec == Decode(out') IN
            /\ decoded' = Append(decoded, dec)
            /\ IF ParseFailed(dec)
               THEN /\ sent' = sent /\ failed' = failed
                    /\ log' = log \o
                         << Info("executing-metrics-cmd", "done", <<>>),
                            Error("parsing-metrics-output", dec.err, "failed",
                                  out', <<>>) >>
                    /\ Exit(1)
               ELSE \* which of the SendValue calls the sink fails
                    /\ failed' \in SUBSET (1..Len(dec.metrics))
                    /\ LET loop == SendValues(dec.metrics, failed', 1) IN
                       /\ sent' = sent \o loop.sent
                       /\ log' = log \o
                            << Info("executing-metrics-cmd", "done", <<>>) >>
                            \o loop.log
                    /\ pc' = "select"
                    /\ exitCode' = exitCode
    /\ UNCHANGED <<cmdline, globals, stderr, dropsonde, cycleNo, cmd, waited>>

\* faulty variant: what was decoded and sent is kept in package variables
Returned_Kept ==
    /\ cmd' = NoCmd /\ state' = NotStarted
    /\ out' = <<>> /\ log' = <<>>
    /\ UNCHANGED <<decoded, sent, failed>>

\* process has returned: its locals are gone
Returned ==
    /\ cmd' = NoCmd /\ state' = NotStarted
    /\ out' = <<>> /\ decoded' = <<>> /\ sent' = <<>> /\ failed' = {} /\ log' = <<>>

\* faulty variant: the loop calls process again without waiting
Wait_NoDelay ==
    /\ pc = "select"
    /\ waited' = 0
    /\ pc' = "process"
    /\ Returned
    /\ UNCHANGED <<cmdline, globals, exitCode, stderr, dropsonde, cycleNo, inFlight, dur>>

\* faulty variant: no loop around the select, the timer is armed once
Wait_Once ==
    /\ pc = "select"
    /\ cycleNo = "first"
    /\ waited' \in { metricsInterval + late : late \in 0..MaxLate }
    /\ pc' = "process"
    /\ Returned
    /\ UNCHANGED <<cmdline, globals, exitCode, stderr, dropsonde, cycleNo, inFlight, dur>>

\* faulty variant: the timer runs beside process and starts the next cycle
\* whether or not the command of this one has ended
Wait_Overlap ==
    /\ pc \in {"select", "running"}
    /\ waited' \in { metricsInterval + late : late \in 0..MaxLate }
    /\ pc' = "process"
    /\ Returned
    /\ UNCHANGED <<cmdline, globals, exitCode, stderr, dropsonde, cycleNo, inFlight, dur>>

\* faulty variant: the command is given one interval, then it is killed and
\* the cycle is abandoned
Wait_Timeout ==
    /\ pc \in {"select", "running"}
    /\ waited' \in { metricsInterval + late : late \in 0..MaxLate }
    /\ inFlight' = 0
    /\ pc' = "process"
    /\ Returned
    /\ UNCHANGED <<cmdline, globals, exitCode, stderr, dropsonde, cycleNo, dur>>

\* faulty variant: a ticker, the interval runs from the start of the cycle
Wait_Ticker ==
    /\ pc = "select"
    /\ waited' \in { (IF dur >= metricsInterval THEN 0 ELSE metricsInterval - dur) + late
                      : late \in 0..MaxLate }
    /\ pc' = "process"
    /\ Returned
    /\ UNCHANGED <<cmdline, globals, exitCode, stderr, dropsonde, cycleNo, inFlight, dur>>

\* the for/select of main: time.After(metricsInterval) fires no earlier than
\* the interval after process returned, and the next process call follows
Wait ==
    /\ pc = "select"
    /\ waited' \in { metricsInterval + late : late \in 0..MaxLate }
    /\ pc' = "process"
    /\ Returned
    /\ UNCHANGED <<cmdline, globals, exitCode, stderr, dropsonde, cycleNo, inFlight, dur>>

Next == Main \/ Process \/ Collect \/ Wait

Spec == Init /\ [][Next]_vars

\* Liveness: main's loop is never descheduled, and the metrics command of
\* each cycle comes to an end.
LiveSpec ==
    Spec /\ WF_vars(Main) /\ WF_vars(Process) /\ WF_vars(Collect) /\ WF_vars(Wait)

(****************************** vocabulary *********************************)
ErrorEvents(l) == SelectSeq(l, LAMBDA e : e.level = "error")

\* the cycle's command was started and has ended
Ran == state.launched /\ state.done

\* the cycle's command could not be started
LaunchFailure == state.done /\ ~state.launched

ExitedWith(c) == Ran /\ state.ws.exited /\ state.ws.code = c

Terminated == pc = "exited"
Running    == pc # "exited" /\ exitCode = -1

\* the texts the external command contract asks for: a JSON array of
\* objects with a string key, a number value and a string unit
Payloads == SeqsUpTo({Obj(m) : m \in Metrics}, MaxMetrics)
Record(t) == Metric(t.Key, t.Value, t.Unit)
Records(p) == [i \in 1..Len(p) |-> Record(p[i])]

(* C1: a cycle terminates the process in exactly three cases, each with its
   own status: the command could not be started (status 1), the command ran
   and ended with a status other than 0 and 10, a signal counting as status
   -1 (status 0), the command exited 0 and decoding its output failed
   (status 1).  After every other cycle outcome the process is running. *)
C1_ThreeWaySplit ==
    /\ (Terminated /\ cycleNo # "none") => state.done
    /\ state.done =>
         LET launch == ~state.launched
             cmdFailed == state.launched
                            /\ ~(state.ws.exited /\ state.ws.code \in {0, 10})
             parse == state.launched /\ state.ws.exited /\ state.ws.code = 0
                            /\ Decode(out).err # NoErr
         IN  /\ launch => Terminated /\ exitCode = 1
             /\ cmdFailed => Terminated /\ exitCode = 0
             /\ parse => Terminated /\ exitCode = 1
             /\ ~(launch \/ cmdFailed \/ parse) => Running

C1_Witness ==
    /\ cycleNo = "later" /\ Terminated /\ exitCode = 0
    /\ ExitedWith(11)

(* C2: a command that ran and exited with a status other than 0 and 10
   terminates the process with status 0; the cycle logged exactly one error
   event, executing-metrics-cmd / failed with the captured output, as its
   last event; nothing was decoded and nothing was sent. *)
C2_CommandFailure ==
    (Ran /\ state.ws.exited /\ state.ws.code \notin {0, 10}) =>
        /\ Terminated /\ exitCode = 0
        /\ ErrorEvents(log) =
              << Error("executing-metrics-cmd", ErrExit, "failed", out, <<>>) >>
        /\ log[Len(log)].level = "error"
        /\ decoded = <<>>
        /\ sent = <<>>

C2_Witness ==
    /\ ExitedWith(1) /\ Terminated /\ exitCode = 0
    /\ out \in Encodings /\ Len(out) > 2

(* C3: a command that exited with status 10, whatever it printed, leaves
   the process running with the timer of the next cycle armed; the cycle
   decoded nothing, sent nothing, logged no error event, and its last event
   is the informational "not yet ready to emit metrics" with the output. *)
C3_NotReady ==
    ExitedWith(10) =>
        /\ decoded = <<>>
        /\ sent = <<>>
        /\ ErrorEvents(log) = <<>>
        /\ log[Len(log)] =
              Info("executing-metrics-cmd", "not yet ready to emit metrics", out)
        /\ Running
        /\ pc = "select"

C3_Witness ==
    /\ ExitedWith(10) /\ cycleNo = "later"
    /\ out \in { Encode(p) : p \in Payloads } /\ Len(out) > 2

(* C4: a cycle whose command could not be started terminates the process
   with status 1; it logged "starting" and then one error event with event
   "failed", decoded nothing and sent nothing. *)
C4_LaunchFailure ==
    LaunchFailure =>
        /\ Terminated /\ exitCode = 1
        /\ Len(ErrorEvents(log)) = 1
        /\ log[Len(log)].level = "error"
        /\ log[Len(log)].action = "executing-metrics-cmd"
        /\ log[Len(log)].event = "failed"
        /\ decoded = <<>>
        /\ sent = <<>>

C4_Witness ==
    LaunchFailure /\ Terminated /\ cmd.path = NoSuchCmd /\ cycleNo = "first"

(* C5: a command that exited 0 with output that is not the JSON array of a
   payload terminates the process with a non-zero status; the cycle logged
   one error event, parsing-metrics-output / failed with the output and the
   parse error, and sent nothing. *)
C5_MalformedOutput ==
    (ExitedWith(0) /\ out \notin { Encode(p) : p \in Payloads }) =>
        /\ Terminated /\ exitCode # 0
        /\ Len(ErrorEvents(log)) = 1
        /\ log[Len(log)].level = "error"
        /\ log[Len(log)].action = "parsing-metrics-output"
        /\ log[Len(log)].event = "failed"
        /\ log[Len(log)].output = out
        /\ log[Len(log)].err # NoErr
        /\ sent = <<>>

(* C6: a command that exited 0 with the JSON array of a payload of n
   metrics makes the cycle send exactly n SendValue calls, the i-th with the
   key, value and unit of the i-th record. *)
C6_ForwardAll ==
    \A p \in Payloads :
        (ExitedWith(0) /\ out = Encode(p)) => sent = Records(p)

C6_Witness ==
    /\ ExitedWith(0) /\ Len(sent) = 2
    /\ sent[1] = sent[2]
    /\ out = Encode(<< Obj(sent[1]), Obj(sent[2]) >>)

C6_WitnessOrder ==
    /\ ExitedWith(0) /\ Len(sent) = 2
    /\ sent[1].Key = "temperatureMetric" /\ sent[2].Key = "loadMetric"

\* the cycle's command exited 0 and its output decoded without error
Forwarding == ExitedWith(0) /\ decoded # <<>> /\ decoded[1].err = NoErr

GoodCycle ==
    state.done =>
        /\ state.launched /\ state.ws.exited
        /\ \/ state.ws.code = 10
           \/ state.ws.code = 0 /\ Decode(out).err = NoErr

StartedUp == pc = "exited" => cycleNo # "none"

(* C7: if the process gets past its startup checks and every cycle's
   command ends with exit 10 or with exit 0 and output that decodes, the
   process never exits, and again and again a cycle's command is running:
   every cycle is followed by another. *)
C7_RunsForever ==
    [](StartedUp /\ GoodCycle) => ([](pc # "exited") /\ []<>(pc = "running"))

C7_Witness ==
    /\ cycleNo = "later" /\ pc = "select"
    /\ Forwarding /\ Len(sent) = 2 /\ failed = {}

\* the k-th smallest member of a set of numbers
Nth(S, k) == CHOOSE i \in S : Cardinality({ j \in S : j < i }) = k - 1

(* C8: in a cycle that forwards, whichever SendValue calls the sink fails,
   every decoded metric is sent, in order; the error events of the cycle
   are exactly one per failed call, in call order, each carrying the key,
   value and unit of its metric; the process is running with the timer of
   the next cycle armed, as after a cycle with no failure. *)
C8_SinkFailure ==
    Forwarding =>
        /\ sent = decoded[1].metrics
        /\ failed \subseteq 1..Len(sent)
        /\ ErrorEvents(log) =
              [ k \in 1..Cardinality(failed) |->
                  Error(ErrSend, ErrSend, "failed", <<>>, << sent[Nth(failed, k)] >>) ]
        /\ Running
        /\ pc = "select"

C8_Witness ==
    /\ Forwarding /\ Len(sent) = 2 /\ failed = {1}
    /\ sent[1] # sent[2]

(* C9: the first cycle starts with no wait before it; every later cycle
   starts at least one full interval after the start of the cycle before
   it (the time the earlier cycle took plus the time the timer took). *)
C9_Schedule ==
    /\ cycleNo = "none" => waited = 0
    /\ (cycleNo # "none" /\ pc = "process") =>
          dur + waited >= metricsInterval /\ metricsInterval > 0

C9_Witness ==
    /\ cycleNo = "later" /\ pc = "process"
    /\ dur = 0 /\ waited = metricsInterval /\ metricsInterval = 2

CycleEvent(e) ==
    e.action \in {"executing-metrics-cmd", "parsing-metrics-output", ErrSend}

(* C10: once main is past its checks, an empty origin, metron-addr or
   metrics-cmd, or a sink that failed to initialize, means the process has
   exited with a non-zero status and no cycle ever started: no command, no
   cycle log event, no SendValue call.  A cycle has started only with all
   three settings non-empty and the sink initialized. *)
C10_Startup ==
    /\ ( pc # "main" /\ ( cmdline.origin = "" \/ cmdline.metronAddr = ""
                           \/ cmdline.metricsCmd = "" \/ dropsonde = "failed" ) ) =>
          /\ Terminated /\ exitCode > 0
          /\ cycleNo = "none"
          /\ cmd = NoCmd /\ state = NotStarted
          /\ sent = <<>>
          /\ \A i \in 1..Len(log) : ~CycleEvent(log[i])
    /\ cycleNo # "none" =>
          /\ origin # "" /\ metronAddr # "" /\ metricsCmd # ""
          /\ dropsonde = "initialized"

C10_Witness ==
    /\ Terminated /\ cycleNo = "none" /\ dropsonde = "failed"
    /\ cmdline.metricsCmd = "/bin/bash"

C10_WitnessFlag ==
    /\ Terminated /\ cycleNo = "none" /\ cmdline.metricsCmd = ""
    /\ stderr = << MustProvide("metrics-cmd") >>

\* main is about to call process again: the timer of the select has fired
NextCycleDue == pc = "process" /\ cycleNo # "none"

(* C11, as stated: after a cycle that took longer than the interval the
   next cycle starts with no further wait. *)
C11_NoFurtherWait ==
    (NextCycleDue /\ dur > metricsInterval) => waited = 0

(* C11, amended: after a cycle that took longer than the interval the next
   cycle is neither skipped nor started at once: it starts after a wait of
   at least one full interval that began when the long cycle returned. *)
C11_FullWaitAfterLongCycle ==
    /\ (NextCycleDue /\ dur > metricsInterval) => waited >= metricsInterval
    /\ (pc = "select" /\ dur > metricsInterval) => waited = 0

C11_Witness ==
    NextCycleDue /\ metricsInterval = 1 /\ dur = 3 /\ waited = 1

(* C12, as stated: the time from the start of one cycle to the start of the
   next equals the interval, however long the first cycle ran (here with a
   timer that fires exactly on time). *)
C12_StartToStart ==
    (NextCycleDue /\ waited = metricsInterval) => dur + waited = metricsInterval

(* C12, amended: the interval is the least time between the return of one
   cycle and the start of the next; the time from start to start is the
   time the first cycle ran plus at least the interval. *)
C12_EndToStart ==
    NextCycleDue =>
        /\ waited >= metricsInterval
        /\ dur + waited >= dur + cmdline.metricsInterval

C12_Witness ==
    NextCycleDue /\ metricsInterval = 2 /\ dur = 2 /\ waited = 2


(* C13: cycles never overlap.  At most one metrics command is in flight, it
   is in flight exactly while its cycle is between the start of the command
   and its end, and the wait in main's select is entered only by a cycle that
   has completed: the command has been waited for and, when the cycle
   forwards, every decoded metric has had its SendValue call. *)
C13_NoOverlap ==
    /\ inFlight \in {0, 1}
    /\ (inFlight = 1) <=> (pc = "running")
    /\ pc = "running" => (state.launched /\ ~state.done)
    /\ pc = "select" =>
           /\ state.done
           /\ Forwarding => Len(sent) = Len(decoded[1].metrics)
    /\ (pc = "process" /\ cycleNo # "none") => (waited >= metricsInterval /\ ~state.launched)

C13_Witness ==
    /\ pc = "select" /\ cycleNo = "later" /\ inFlight = 0
    /\ Forwarding /\ Len(sent) = MaxMetrics

Starting == Info("executing-metrics-cmd", "starting", <<>>)
Done     == Info("executing-metrics-cmd", "done", <<>>)
Logged(e) == \E i \in 1..Len(log) : log[i] = e

(* C14: in every cycle "starting" is the first event, logged before the
   command runs; "done" is logged exactly in the cycles whose command exited
   0, once, right after "starting" and before the events of the parse and of
   the SendValue calls; a cycle that ended in exit 10, a command failure or a
   launch failure has no "done". *)
C14_LogOrder ==
    /\ pc = "running" => log = <<Starting>>
    /\ (state.done \/ state.launched) =>
           /\ log # <<>> /\ log[1] = Starting
           /\ \A i \in 2..Len(log) : log[i] # Starting
    /\ state.done => (Logged(Done) <=> ExitedWith(0))
    /\ ExitedWith(0) =>
           /\ Len(log) >= 2 /\ log[2] = Done
           /\ \A i \in 3..Len(log) :
                  /\ log[i].level = "error"
                  /\ log[i].action \in {"parsing-metrics-output", ErrSend}
    /\ (LaunchFailure \/ (Ran /\ ~ExitedWith(0))) => ~Logged(Done)

C14_Witness ==
    /\ pc = "select" /\ ExitedWith(0) /\ Len(log) = 2 + MaxMetrics
    /\ log[1] = Starting /\ log[2] = Done /\ log[3].action = ErrSend

SendErrors == SelectSeq(log, LAMBDA e : e.action = ErrSend)

(* C15: nothing is carried from one cycle into the next.  A cycle starts
   with nothing decoded and nothing sent; what it sends is what Decode makes
   of its own output, once per decoded metric, a failed call logged once and
   not repeated; a cycle whose command did not exit 0 sends nothing. *)
C15_NoCarryOver ==
    /\ (pc \in {"process", "running"}) => (decoded = <<>> /\ sent = <<>> /\ failed = {})
    /\ state.done =>
           /\ Len(decoded) = (IF ExitedWith(0) THEN 1 ELSE 0)
           /\ decoded # <<>> => decoded[1] = Decode(out)
           /\ sent = (IF Forwarding THEN Decode(out).metrics ELSE <<>>)
           /\ failed \subseteq 1..Len(sent)
           /\ SendErrors = [ i \in 1..Cardinality(failed) |->
                               Error(ErrSend, ErrSend, "failed", <<>>,
                                     <<sent[Nth(failed, i)]>>) ]

C15_Witness ==
    /\ cycleNo = "later" /\ pc = "select" /\ Forwarding
    /\ Len(sent) = 1 /\ failed = {1} /\ Len(SendErrors) = 1

(* C16: there is no timeout on the metrics command.  While it has not ended
   nothing is decoded or sent and the process has no exit status, and the
   only step there is from a running command is the end of that command: no
   next cycle, no wait, no exit. *)
C16_NoTimeout ==
    /\ [](pc = "running" =>
             /\ ~state.done /\ decoded = <<>> /\ sent = <<>>
             /\ exitCode = -1 /\ Len(log) = 1)
    /\ [][pc = "running" =>
             /\ state'.launched /\ state'.done
             /\ inFlight' = inFlight - 1
             /\ cycleNo' = cycleNo /\ cmd' = cmd /\ waited' = waited
             /\ pc' \in {"select", "exited"}]_vars

C16_Witness ==
    /\ pc = "running" /\ cycleNo = "later" /\ inFlight = 1
    /\ state.launched /\ ~state.done /\ exitCode = -1

(* C17: every cycle runs the command at the --metrics-cmd path with the
   --metrics-cmd-arg values as they were given, in order, none dropped or
   repeated; once main has parsed the flags the configuration is what the
   command line said, in every later state. *)
C17_SameCommand ==
    /\ pc # "main" =>
           /\ metricsCmd = cmdline.metricsCmd
           /\ metricsCmdArgs = cmdline.metricsCmdArg
           /\ metricsInterval = cmdline.metricsInterval
           /\ origin = cmdline.origin /\ metronAddr = cmdline.metronAddr
    /\ (cycleNo # "none" /\ pc \in {"running", "select", "exited"}) =>
           cmd = [path |-> cmdline.metricsCmd, args |-> cmdline.metricsCmdArg]

C17_Witness ==
    /\ cycleNo = "later" /\ pc = "running"
    /\ cmd = [path |-> "/bin/bash", args |-> <<"-n", "-n">>]

(* C18: SendValue is called only in a cycle whose command exited 0 and
   whose whole output is the JSON array of a payload, and a cycle that
   terminates the process made no SendValue call. *)
C18_SendOnlyParsed ==
    /\ sent # <<>> => (ExitedWith(0) /\ out \in { Encode(p) : p \in Payloads })
    /\ Terminated => (sent = <<>> /\ SendErrors = <<>>)

(* What the code does give: SendValue only after Decode returned no error,
   none in a cycle that terminates the process, also when Decode had filled
   records before it met its error. *)
C18_SendOnlyDecoded ==
    /\ sent # <<>> => Forwarding
    /\ Terminated => (sent = <<>> /\ SendErrors = <<>>)

C18_PartialDecode ==
    /\ Terminated /\ ExitedWith(0) /\ decoded # <<>>
    /\ decoded[1].err = ErrType /\ decoded[1].metrics # <<>> /\ sent = <<>>

(* C19: a command that was started and ended by a signal is a command
   failure: one error event, executing-metrics-cmd / failed with the output,
   exit status 0, nothing decoded or sent, and none of the events of a
   not-ready, a successful or a never-started command. *)
C19_Signalled ==
    (Ran /\ ~state.ws.exited) =>
        /\ Terminated /\ exitCode = 0
        /\ log = << Starting,
                    Error("executing-metrics-cmd", ErrExit, "failed", out, <<>>) >>
        /\ decoded = <<>> /\ sent = <<>>
        /\ ~LaunchFailure

C19_Witness ==
    /\ Ran /\ ~state.ws.exited /\ state.ws.signal = SIGKILL
    /\ out # <<>> /\ Terminated /\ exitCode = 0

====
